---- MODULE Spec2Model ----
(***************************************************************************)
(* The flatness metric of disent (src/disent/metrics/_flatness.py) as a    *)
(* state machine: factor loop -> repeat loop -> chunk loop -> measures ->  *)
(* aggregation over repeats -> aggregation over factors -> scores.         *)
(*                                                                         *)
(* Numbers: latent points are integer vectors chosen so that every         *)
(* distance the metric takes is an integer; means and ratios are exact     *)
(* rationals <<num, den>> in lowest terms, <<0, 0>> is NaN and <<1, 0>>    *)
(* is +Inf.  Floating-point rounding is not modelled.                      *)
(***************************************************************************)
EXTENDS Integers, Sequences, FiniteSets, TLC

\* ------------------------------------------------------------------------
\* Bounds of the model
\* ------------------------------------------------------------------------
MaxFactorSize == 3
MaxRepeats == 2
MaxBatch == 4
MaxSeed == 1
MaxIndex == 3
MaxFailAt == 3
MaxMeasure == 2

\* ------------------------------------------------------------------------
\* Exact arithmetic
\* ------------------------------------------------------------------------
Abs(x) == IF x < 0 THEN -x ELSE x

Min(a, b) == IF a <= b THEN a ELSE b

RECURSIVE GCD(_, _)
GCD(a, b) == IF b = 0 THEN a ELSE GCD(b, a % b)

NaN == <<0, 0>>

Inf == <<1, 0>>

\* the rational n/d in lowest terms (d >= 0)
Rat(n, d) ==
    IF d = 0 THEN (IF n = 0 THEN NaN ELSE Inf)
    ELSE LET g == GCD(Abs(n), d) IN <<n \div g, d \div g>>

RInt(n) == <<n, 1>>

IsFinite(x) == x[2] # 0

RAdd(x, y) ==
    IF IsFinite(x) /\ IsFinite(y) THEN Rat(x[1] * y[2] + y[1] * x[2], x[2] * y[2])
    ELSE IF x = NaN \/ y = NaN THEN NaN ELSE Inf

RMul(x, y) ==
    IF IsFinite(x) /\ IsFinite(y) THEN Rat(x[1] * y[1], x[2] * y[2])
    ELSE IF x = NaN \/ y = NaN \/ x[1] = 0 \/ y[1] = 0 THEN NaN ELSE Inf

\* x / y for x, y >= 0, with the IEEE results of a division by zero
RDiv(x, y) ==
    IF ~IsFinite(x) \/ ~IsFinite(y) THEN NaN
    ELSE IF y[1] = 0 THEN (IF x[1] = 0 THEN NaN ELSE Inf)
    ELSE Rat(x[1] * y[2], x[2] * y[1])

RECURSIVE RSum(_)
RSum(s) == IF s = <<>> THEN RInt(0) ELSE RAdd(Head(s), RSum(Tail(s)))

RECURSIVE ISum(_)
ISum(s) == IF s = <<>> THEN 0 ELSE Head(s) + ISum(Tail(s))

\* torch.mean of a 1-d tensor: NaN for the empty tensor
TorchMean(s) == RDiv(RSum(s), RInt(Len(s)))

\* the integer square root of a perfect square
ISqrt(n) == CHOOSE r \in 0..n : r * r = n

\* ------------------------------------------------------------------------
\* The collaborators: the ground truth dataset and the representation
\* ------------------------------------------------------------------------

\* datasets of one or two factors, and the dataset [1, 5]
FactorSizeLists ==
    {<<a>> : a \in 1..MaxFactorSize}
        \cup {<<a, b>> : a \in 1..MaxFactorSize, b \in 1..MaxFactorSize}
        \cup {<<1, 5>>}

\* every full factor assignment of a dataset
Assignments(sizes) ==
    {a \in [1..Len(sizes) -> 0..5] : \A i \in 1..Len(sizes) : a[i] < sizes[i]}

\* the random source: a small congruential generator
NextRng(s) == (3 * s + 1) % 7

\* sample_factors(size=1): one full assignment, drawn from the random state
SampleFactors(sizes, s) ==
    [i \in 1..Len(sizes) |-> IF i = 1 THEN s % sizes[1] ELSE (s \div 3) % sizes[i]]

\* s without its element at position e (e = 0: s itself)
RemoveAt(s, e) ==
    IF e = 0 THEN s ELSE [i \in 1..(Len(s) - 1) |-> IF i < e THEN s[i] ELSE s[i + 1]]

\* s with x inserted at position e (e = 0: s itself)
InsertAt(s, e, x) ==
    IF e = 0 THEN s
    ELSE [i \in 1..(Len(s) + 1) |-> IF i < e THEN s[i] ELSE IF i = e THEN x ELSE s[i - 1]]

\* dataset_batch_from_factors for one row: the observation of an assignment.
\* The observation does not depend on the added constant factor (extra).
Observation(a, e) == RemoveAt(a, e)

ObsIndex(o) == o[1] + (IF Len(o) >= 2 THEN 3 * o[2] ELSE 0)

Corner(i) == CASE i = 1 -> <<0, 0>> [] i = 2 -> <<3, 0>> [] i = 3 -> <<3, 4>> [] OTHER -> <<0, 4>>

ZigTable == <<0, 5, 1, 4, 4, 4, 9>>

BentTable == <<1, 2, 3, 1, 3, 1, 1>>

RepKinds == {"zero", "line", "wide", "zig", "bent"}

\* the spacing of the two representations that put every traversal on a line
LineSpacing(kind) == IF kind = "line" THEN 2 ELSE 3

\* the representation function: one observation to one latent point
Represent(kind, o) ==
    CASE kind = "zero" -> <<0, 0>>
      [] kind \in {"line", "wide"} -> <<LineSpacing(kind) * ISum(o)>>
      [] kind = "zig"  -> <<ZigTable[(ObsIndex(o) % 7) + 1]>>
      [] OTHER         -> Corner(BentTable[(ObsIndex(o) % 7) + 1])

\* ------------------------------------------------------------------------
\* Distances (knn, torch.norm, torch.topk)
\* ------------------------------------------------------------------------
SetMax(S) == CHOOSE x \in S : \A y \in S : y <= x

\* torch.norm(u - v, p=p) for p in {1, 2}
Norm(p, u, v) ==
    IF p = 1 THEN ISum([i \in 1..Len(u) |-> Abs(u[i] - v[i])])
    ELSE ISqrt(ISum([i \in 1..Len(u) |-> (u[i] - v[i]) * (u[i] - v[i])]))

\* knn called with largest=False: per row the smallest distance
KnnSmallest(zs, p) ==
    [i \in 1..Len(zs) |-> -SetMax({-Norm(p, zs[i], zs[j]) : j \in 1..Len(zs)})]

\* knn(x=zs, y=zs, k=1, largest=True, p=p).values: per row the largest distance
KnnLargest(zs, p) ==
    [i \in 1..Len(zs) |-> SetMax({Norm(p, zs[i], zs[j]) : j \in 1..Len(zs)})]

\* the maximum over the consecutive pairs only
WidthOfConsecutive(zs, p) ==
    SetMax({Norm(p, zs[i], zs[(i % Len(zs)) + 1]) : i \in 1..Len(zs)})

\* the width of a traversal
Width(zs, p) == SetMax({KnnLargest(zs, p)[i] : i \in 1..Len(zs)})

\* torch.norm(zs - torch.roll(zs, -1, dims=0), dim=-1, p=p)
RawDeltas(zs, p) ==
    [i \in 1..Len(zs) |-> Norm(p, zs[i], zs[(i % Len(zs)) + 1])]

\* the sequence s without the first occurrence of x
RECURSIVE RemoveOne(_, _)
RemoveOne(s, x) ==
    IF s = <<>> THEN <<>>
    ELSE IF Head(s) = x THEN Tail(s)
    ELSE <<Head(s)>> \o RemoveOne(Tail(s), x)

SeqMin(s) == CHOOSE x \in {s[i] : i \in 1..Len(s)} : \A j \in 1..Len(s) : x <= s[j]

\* torch.topk called with largest=True: the k largest values
RECURSIVE TopkLargest(_, _)
TopkLargest(s, k) ==
    IF k = 0 \/ s = <<>> THEN <<>>
    ELSE LET x == SetMax({s[i] : i \in 1..Len(s)})
         IN  <<x>> \o TopkLargest(RemoveOne(s, x), k - 1)

\* the values below the maximum: every occurrence of the maximum is dropped
TopkBelowMax(s, k) ==
    SelectSeq(s, LAMBDA x : \E i \in 1..Len(s) : x < s[i])

\* the deltas in traversal order without the last: the closing edge is dropped
DropClosingEdge(s, k) == SubSeq(s, 1, k)

\* torch.topk(s, k, largest=False).values: the k smallest values
RECURSIVE TopkSmallest(_, _)
TopkSmallest(s, k) ==
    IF k = 0 \/ s = <<>> THEN <<>>
    ELSE <<SeqMin(s)>> \o TopkSmallest(RemoveOne(s, SeqMin(s)), k - 1)

\* ------------------------------------------------------------------------
\* State
\* ------------------------------------------------------------------------
VARIABLES
    factor_sizes,    \* ground_truth_dataset.factor_sizes
    extra,           \* position of a constant factor added to the dataset, or 0
    rep,             \* representation_function
    factor_repeats,  \* argument factor_repeats
    batch_size,      \* argument batch_size
    entry,           \* the function that is called
    cycle_fail,      \* argument cycle_fail of aggregate_measure_distances_along_factor
    fail_at,         \* the call at which representation_function raises, or 0
    raised,          \* the exception that ended the call, or NoException
    rng,             \* state of the random source
    stream,          \* the base assignments sample_factors has returned
    call,            \* 1: first call of metric_flatness, 2: second call
    prev,            \* arguments and outcome of the first call
    pc,              \* position of the running call
    f_idx,           \* factor index of the comprehension in lines 127-130
    factors,         \* rows of the current traversal
    zs,              \* list zs of encode_all_factors, concatenated
    p_measures,      \* per repeat: p -> [width, deltas]
    fs_p_measures,   \* per factor: p -> [ave_width, ave_delta]
    fs_raw,          \* per factor: the p_measures it was aggregated from
    p_fs_measures,   \* p -> [fs_ave_widths, fs_ave_lengths]
    results,         \* the mapping metric_flatness returns
    calls,           \* number of calls of representation_function in this call
    loaded,          \* number of observations passed to representation_function
    arg_widths,      \* compute_flatness called directly: the caller's tensor widths
    arg_lengths,     \* compute_flatness called directly: the caller's tensor lengths
    episode,         \* RandomEpisodeSampler: the episode get_episode_and_idx returns
    episode_idx,     \* RandomEpisodeSampler: the index inside the episode
    offset,          \* RandomEpisodeSampler: the offset of the episode
    num_samples,     \* RandomEpisodeSampler: self._num_samples (n)
    sample_radius,   \* RandomEpisodeSampler: self._sample_radius, <<>> for None, else <<r>>
    indices,         \* RandomEpisodeSampler: the set indices
    draws,           \* RandomEpisodeSampler: number of runs of the loop body
    IMAGE_QUEUE,     \* dashboard server: key -> the uuids in its deque, oldest first
    UUID_TO_IMAGE,   \* dashboard server: the pairs <<uuid, image>> of the dictionary
    uuids,           \* dashboard server: number of uuid4() calls
    response         \* dashboard server: the response of the last request

\* the arguments of a direct call of compute_flatness
flat_args == <<arg_widths, arg_lengths>>

\* the state of RandomEpisodeSampler.__call__
sampler == <<episode, episode_idx, offset, num_samples, sample_radius, indices, draws>>

\* the state of the dashboard server
server == <<IMAGE_QUEUE, UUID_TO_IMAGE, uuids, response>>

\* what a call of the flatness metric does not touch
elsewhere == <<flat_args, sampler, server>>

vars == <<factor_sizes, extra, rep, factor_repeats, batch_size, entry, cycle_fail, fail_at,
          raised, rng, stream, call, prev, pc, f_idx, factors, zs, p_measures, fs_p_measures,
          fs_raw, p_fs_measures, results, calls, loaded, elsewhere>>

args == <<factor_sizes, extra, rep, factor_repeats, batch_size, entry, cycle_fail, fail_at>>

Ps == {1, 2}

num_factors == Len(factor_sizes)

None == "None"

\* compute_flatness is not called directly
NoFlatArgs == arg_widths = <<>> /\ arg_lengths = <<>>

\* the episode sampler is not running
NoSampler ==
    /\ episode = <<>> /\ episode_idx = 0 /\ offset = 0 /\ num_samples = 0 /\ sample_radius = <<>>
    /\ indices = {} /\ draws = 0

\* the dashboard server is not running
NoServer == IMAGE_QUEUE = <<>> /\ UUID_TO_IMAGE = {} /\ uuids = 0 /\ response = None

\* the programs that are not running hold nothing
Elsewhere == NoFlatArgs /\ NoSampler /\ NoServer

\* the flatness metric is not running: its locals hold nothing
NoMetric ==
    /\ extra = 0 /\ rep = "zero" /\ factor_repeats = 1 /\ batch_size = 1
    /\ cycle_fail = FALSE /\ fail_at = 0 /\ rng = 0 /\ stream = <<>> /\ call = 1 /\ prev = None
    /\ f_idx = 0 /\ factors = <<>> /\ zs = <<>> /\ p_measures = <<>> /\ fs_p_measures = <<>>
    /\ fs_raw = <<>> /\ p_fs_measures = None /\ calls = 0 /\ loaded = 0

\* the variables of the flatness metric other than pc, results and raised
metric == <<args, rng, stream, call, prev, f_idx, factors, zs, p_measures, fs_p_measures,
            fs_raw, p_fs_measures, calls, loaded>>

\* an exception: its type and the named values its message is formatted from
Exception(type, fields) == [type |-> type, fields |-> fields]

\* no exception is raised
NoException == Exception("None", {})

Init ==
    /\ factor_sizes \in FactorSizeLists
    /\ extra = 0
    /\ rep \in RepKinds
    /\ factor_repeats \in 1..MaxRepeats
    /\ batch_size \in 1..MaxBatch
    /\ entry = "metric_flatness"
    /\ cycle_fail = FALSE
    /\ fail_at = 0
    /\ raised = NoException
    /\ rng \in 0..MaxSeed
    /\ stream = <<>>
    /\ call = 1
    /\ prev = None
    /\ pc = "call"
    /\ f_idx = 0
    /\ factors = <<>>
    /\ zs = <<>>
    /\ p_measures = <<>>
    /\ fs_p_measures = <<>>
    /\ fs_raw = <<>>
    /\ p_fs_measures = None
    /\ results = None
    /\ calls = 0
    /\ loaded = 0
    /\ Elsewhere

\* ------------------------------------------------------------------------
\* Entry of metric_flatness and of aggregate_measure_distances_along_all_factors
\* ------------------------------------------------------------------------

\* a list that outlives the call
KeptList(old) == old

\* the list the comprehension of lines 127-130 builds is new in every call
NewList(old) == <<>>

\* lines 80 and 127: the call starts with locals of its own
Enter ==
    /\ pc = "call"
    /\ pc' = "factor"
    /\ f_idx' = 0
    /\ fs_p_measures' = NewList(fs_p_measures)
    /\ fs_raw' = NewList(fs_raw)
    /\ p_measures' = <<>>
    /\ factors' = <<>>
    /\ zs' = <<>>
    /\ p_fs_measures' = None
    /\ results' = None
    /\ calls' = 0
    /\ loaded' = 0
    /\ UNCHANGED <<args, elsewhere, raised, rng, stream, call, prev>>

\* ------------------------------------------------------------------------
\* aggregate_measure_distances_along_factor
\* ------------------------------------------------------------------------

\* the indices a sequence of n elements accepts: f in -n .. n-1
ValidIndex(n, f) == 0 - n <= f /\ f < n

\* the position sizes[f] reads: a negative index counts from the end
PyIndex(n, f) == IF f < 0 THEN f + n + 1 ELSE f + 1

\* f_size = ground_truth_dataset.factor_sizes[f_idx]
FactorSize == factor_sizes[PyIndex(num_factors, f_idx)]

\* the factor is still to be aggregated: the comprehension of lines 127-130
\* calls once per factor, a direct call is one call
Pending == entry = "metric_flatness" \/ fs_p_measures = <<>>

\* the factor index after the factor is aggregated
NextFactor == IF entry = "metric_flatness" THEN f_idx + 1 ELSE f_idx

\* the case f_size == 1 left out: the factor is traversed like any other
SizeOneFactorTraversed ==
    /\ pc = "factor"
    /\ entry # "encode_all_along_factor"
    /\ Pending
    /\ ValidIndex(num_factors, f_idx)
    /\ FactorSize = 1
    /\ p_measures' = <<>>
    /\ pc' = "sample"
    /\ UNCHANGED <<args, elsewhere, raised, rng, stream, call, prev, f_idx, factors, zs, fs_p_measures, fs_raw,
                   p_fs_measures, results, calls, loaded>>

\* lines 158-162: a factor of size 1 yields zero measures; get_device encodes
\* one sampled observation and keeps only the device of the output
SizeOneFactor ==
    /\ pc = "factor"
    /\ entry # "encode_all_along_factor"
    /\ Pending
    /\ ValidIndex(num_factors, f_idx)
    /\ FactorSize = 1
    /\ ~cycle_fail
    /\ calls + 1 # fail_at
    /\ \E a \in Assignments(factor_sizes) :
          Len(Represent(rep, Observation(a, extra))) > 0
    /\ calls' = calls + 1
    /\ loaded' = loaded + 1
    /\ rng' = NextRng(rng)
    /\ fs_p_measures' = Append(fs_p_measures, [p \in Ps |-> [ave_width |-> RInt(0), ave_delta |-> RInt(0)]])
    /\ fs_raw' = Append(fs_raw, <<>>)
    /\ f_idx' = NextFactor
    /\ UNCHANGED <<args, elsewhere, raised, stream, call, prev, pc, factors, zs, p_measures, p_fs_measures, results>>

\* lines 156-166: a factor of size >= 2 starts its repeats;
\* line 196: encode_all_along_factor has no case for the size 1
BeginFactor ==
    /\ pc = "factor"
    /\ Pending
    /\ ValidIndex(num_factors, f_idx)
    /\ FactorSize # 1 \/ entry = "encode_all_along_factor"
    /\ p_measures' = <<>>
    /\ pc' = "sample"
    /\ UNCHANGED <<args, elsewhere, raised, rng, stream, call, prev, f_idx, factors, zs, fs_p_measures, fs_raw,
                   p_fs_measures, results, calls, loaded>>

\* the column written with np.arange(num)[::-1]: a decreasing sweep
RangeDescending(base, idx, num) ==
    [i \in 1..num |-> [base EXCEPT ![PyIndex(Len(base), idx)] = num - i]]

\* factors.repeat(num, axis=0); factors[:, idx] = np.arange(num)
RangeAlongRepeatedFactors(base, idx, num) ==
    [i \in 1..num |-> [base EXCEPT ![PyIndex(Len(base), idx)] = i - 1]]

\* lines 195-198 and 204-211: one sampled assignment, swept along factor f_idx.
\* The second call is given the assignments the first call drew.
SampleTraversal ==
    /\ pc = "sample"
    /\ LET base == IF call = 1 THEN SampleFactors(factor_sizes, rng)
                   ELSE InsertAt(stream[1], extra, 0)
       IN  /\ factors' = RangeAlongRepeatedFactors(base, f_idx, FactorSize)
           /\ stream' = IF call = 1 THEN Append(stream, base) ELSE Tail(stream)
    /\ rng' = IF call = 1 THEN NextRng(rng) ELSE rng
    /\ zs' = <<>>
    /\ pc' = "encode"
    /\ UNCHANGED <<args, elsewhere, raised, call, prev, f_idx, p_measures, fs_p_measures, fs_raw, p_fs_measures,
                   results, calls, loaded>>

\* chunked(factors, chunk_size): the chunk that starts after `done` rows
Chunk(rows, done, chunk_size) ==
    SubSeq(rows, done + 1, Min(done + chunk_size, Len(rows)))

\* zs.insert(0, z) followed by torch.cat(zs, dim=0)
PrependChunk(acc, z) == z \o acc

\* zs.append(z) followed by torch.cat(zs, dim=0)
AppendChunk(acc, z) == acc \o z

\* representation_function called once on all the rows: no chunking
EncodeAllRows ==
    /\ pc = "encode"
    /\ Len(zs) < Len(factors)
    /\ batch_size >= 1
    /\ calls + 1 # fail_at
    /\ zs' = [i \in 1..Len(factors) |-> Represent(rep, Observation(factors[i], extra))]
    /\ loaded' = loaded + Len(factors)
    /\ calls' = calls + 1
    /\ UNCHANGED <<args, elsewhere, raised, rng, stream, call, prev, pc, f_idx, factors, p_measures, fs_p_measures,
                   fs_raw, p_fs_measures, results>>

\* lines 217-220: one iteration of the chunk loop of encode_all_factors
EncodeChunk ==
    /\ pc = "encode"
    /\ Len(zs) < Len(factors)
    /\ batch_size >= 1
    /\ calls + 1 # fail_at
    /\ LET batch_factors == Chunk(factors, Len(zs), batch_size)
           z == [i \in 1..Len(batch_factors) |-> Represent(rep, Observation(batch_factors[i], extra))]
       IN  /\ zs' = AppendChunk(zs, z)
           /\ loaded' = loaded + Len(batch_factors)
    /\ calls' = calls + 1
    /\ UNCHANGED <<args, elsewhere, raised, rng, stream, call, prev, pc, f_idx, factors, p_measures, fs_p_measures,
                   fs_raw, p_fs_measures, results>>

\* every cyclic delta retained: topk with k = f_size
MeasureAllDeltas(zs_traversal, f_size) ==
    [p \in Ps |-> [width  |-> Width(zs_traversal, p),
                   deltas |-> TopkSmallest(RawDeltas(zs_traversal, p), f_size)]]

\* lines 174-178: width and retained deltas of one traversal, for each norm
Measure(zs_traversal, f_size) ==
    [p \in Ps |-> [width  |-> Width(zs_traversal, p),
                   deltas |-> TopkSmallest(RawDeltas(zs_traversal, p), f_size - 1)]]

\* a loop that runs once more than range(repeats)
OneMoreRepeat(done, repeats) == done <= repeats

\* for m in p_measures, with p_measures of length repeats (lines 166-167)
MoreRepeats(done, repeats) == done < repeats

\* lines 169-178: the traversal is encoded; measure it and go to the next repeat
MeasureTraversal ==
    /\ pc = "encode"
    /\ entry # "encode_all_along_factor"
    /\ Len(zs) = Len(factors)
    /\ p_measures' = Append(p_measures, Measure(zs, FactorSize))
    /\ pc' = IF MoreRepeats(Len(p_measures) + 1, factor_repeats) THEN "sample" ELSE "aggregate"
    /\ UNCHANGED <<args, elsewhere, raised, rng, stream, call, prev, f_idx, factors, zs, fs_p_measures, fs_raw,
                   p_fs_measures, results, calls, loaded>>

RECURSIVE Concat(_)
Concat(ss) == IF ss = <<>> THEN <<>> ELSE Head(ss) \o Concat(Tail(ss))

\* lines 182-187: means over the repeats (default_collate stacks the repeats)
AveWidth(measures, p) ==
    Rat(ISum([r \in 1..Len(measures) |-> measures[r][p].width]), Len(measures))

AveDelta(measures, p) ==
    LET all == Concat([r \in 1..Len(measures) |-> measures[r][p].deltas])
    IN  Rat(ISum(all), Len(all))

AggregateFactor ==
    /\ pc = "aggregate"
    /\ fs_p_measures' = Append(fs_p_measures,
          [p \in Ps |-> [ave_width |-> AveWidth(p_measures, p), ave_delta |-> AveDelta(p_measures, p)]])
    /\ fs_raw' = Append(fs_raw, p_measures)
    /\ f_idx' = NextFactor
    /\ pc' = "factor"
    /\ UNCHANGED <<args, elsewhere, raised, rng, stream, call, prev, factors, zs, p_measures, p_fs_measures,
                   results, calls, loaded>>

\* ------------------------------------------------------------------------
\* aggregate_measure_distances_along_all_factors, lines 134-144
\* ------------------------------------------------------------------------

\* the number of points in place of the number of deltas
AveLengthPoints(f_size, ave_delta) == RMul(RInt(f_size), ave_delta)

\* fs_num_deltas * fs_ave_deltas
AveLength(f_size, ave_delta) == RMul(RInt(f_size - 1), ave_delta)

FinalizeMeasures(fs_measures, sizes) ==
    [p \in Ps |->
        [fs_ave_widths  |-> [f \in 1..Len(sizes) |-> fs_measures[f][p].ave_width],
         fs_ave_lengths |-> [f \in 1..Len(sizes) |-> AveLength(sizes[f], fs_measures[f][p].ave_delta)]]]

\* ------------------------------------------------------------------------
\* filter_inactive_factors and compute_flatness
\* ------------------------------------------------------------------------

\* no factor removed
KeepInactiveFactors(tensor, sizes) == tensor

\* tensor[torch.nonzero(factor_sizes - 1)]: the entries of the factors of size # 1
RECURSIVE FilterInactiveFactors(_, _)
FilterInactiveFactors(tensor, sizes) ==
    IF tensor = <<>> THEN <<>>
    ELSE (IF Head(sizes) - 1 # 0 THEN <<Head(tensor)>> ELSE <<>>)
             \o FilterInactiveFactors(Tail(tensor), Tail(sizes))

\* the assertions without the pairing of zero widths and zero lengths
FlatnessChecksUnpaired(widths, lengths) ==
    /\ \A i \in 1..Len(widths) : widths[i][1] >= 0
    /\ \A i \in 1..Len(lengths) : lengths[i][1] >= 0

\* the three assertions of compute_flatness, on the filtered tensors
FlatnessChecks(widths, lengths) ==
    /\ \A i \in 1..Len(widths) : widths[i][1] >= 0
    /\ \A i \in 1..Len(lengths) : lengths[i][1] >= 0
    /\ \A i \in 1..Len(widths) : (widths[i][1] = 0) <=> (lengths[i][1] = 0)

\* widths.mean() / lengths.mean(): a ratio of means
FlatnessOfMeans(widths, lengths) ==
    LET w == [i \in 1..Len(widths) |-> IF lengths[i][1] = 0 THEN RInt(0) ELSE widths[i]]
    IN  IF RSum(lengths)[1] = 0 THEN TorchMean(w) ELSE RDiv(RSum(w), RSum(lengths))

\* widths[lengths == 0] = 0; lengths[lengths == 0] = 1; (widths / lengths).mean()
FlatnessOf(widths, lengths) ==
    LET w == [i \in 1..Len(widths) |-> IF lengths[i][1] = 0 THEN RInt(0) ELSE widths[i]]
        l == [i \in 1..Len(lengths) |-> IF lengths[i][1] = 0 THEN RInt(1) ELSE lengths[i]]
    IN  TorchMean([i \in 1..Len(w) |-> RDiv(w[i], l[i])])

ComputeFlatness(widths, lengths, sizes) ==
    FlatnessOf(FilterInactiveFactors(widths, sizes), FilterInactiveFactors(lengths, sizes))

ComputeFlatnessChecks(widths, lengths, sizes) ==
    FlatnessChecks(FilterInactiveFactors(widths, sizes), FilterInactiveFactors(lengths, sizes))

\* ------------------------------------------------------------------------
\* metric_flatness, lines 82-93
\* ------------------------------------------------------------------------

\* a zero-dimensional tensor and its conversion float(v)
Tensor(x) == <<"tensor", x>>

Float(t) == <<"float", t[2]>>

ResultKeys ==
    {"flatness.ave_flatness", "flatness.ave_flatness_l1", "flatness.ave_flatness_l2",
     "flatness.ave_width_l1", "flatness.ave_width_l2",
     "flatness.ave_length_l1", "flatness.ave_length_l2"}

\* the dictionary with ave_flatness taken from the p=1 widths
TensorResultsSameNorm(m, sizes) ==
    [k \in ResultKeys |->
        CASE k \in {"flatness.ave_flatness", "flatness.ave_flatness_l1"}
                                            -> Tensor(ComputeFlatness(m[1].fs_ave_widths, m[1].fs_ave_lengths, sizes))
          [] k = "flatness.ave_flatness_l2" -> Tensor(ComputeFlatness(m[2].fs_ave_widths, m[2].fs_ave_lengths, sizes))
          [] k = "flatness.ave_width_l1"    -> Tensor(TorchMean(FilterInactiveFactors(m[1].fs_ave_widths, sizes)))
          [] k = "flatness.ave_width_l2"    -> Tensor(TorchMean(FilterInactiveFactors(m[2].fs_ave_widths, sizes)))
          [] k = "flatness.ave_length_l1"   -> Tensor(TorchMean(FilterInactiveFactors(m[1].fs_ave_lengths, sizes)))
          [] OTHER                          -> Tensor(TorchMean(FilterInactiveFactors(m[2].fs_ave_lengths, sizes)))]

\* the dictionary with ave_flatness taken from the p=1 widths and p=2 lengths
TensorResultsSwapped(m, sizes) ==
    [k \in ResultKeys |->
        CASE k = "flatness.ave_flatness"    -> Tensor(ComputeFlatness(m[1].fs_ave_widths, m[2].fs_ave_lengths, sizes))
          [] k = "flatness.ave_flatness_l1" -> Tensor(ComputeFlatness(m[1].fs_ave_widths, m[1].fs_ave_lengths, sizes))
          [] k = "flatness.ave_flatness_l2" -> Tensor(ComputeFlatness(m[2].fs_ave_widths, m[2].fs_ave_lengths, sizes))
          [] k = "flatness.ave_width_l1"    -> Tensor(TorchMean(FilterInactiveFactors(m[1].fs_ave_widths, sizes)))
          [] k = "flatness.ave_width_l2"    -> Tensor(TorchMean(FilterInactiveFactors(m[2].fs_ave_widths, sizes)))
          [] k = "flatness.ave_length_l1"   -> Tensor(TorchMean(FilterInactiveFactors(m[1].fs_ave_lengths, sizes)))
          [] OTHER                          -> Tensor(TorchMean(FilterInactiveFactors(m[2].fs_ave_lengths, sizes)))]

\* the dictionary of lines 82-91, its values still tensors
TensorResults(m, sizes) ==
    [k \in ResultKeys |->
        CASE k = "flatness.ave_flatness"    -> Tensor(ComputeFlatness(m[2].fs_ave_widths, m[1].fs_ave_lengths, sizes))
          [] k = "flatness.ave_flatness_l1" -> Tensor(ComputeFlatness(m[1].fs_ave_widths, m[1].fs_ave_lengths, sizes))
          [] k = "flatness.ave_flatness_l2" -> Tensor(ComputeFlatness(m[2].fs_ave_widths, m[2].fs_ave_lengths, sizes))
          [] k = "flatness.ave_width_l1"    -> Tensor(TorchMean(FilterInactiveFactors(m[1].fs_ave_widths, sizes)))
          [] k = "flatness.ave_width_l2"    -> Tensor(TorchMean(FilterInactiveFactors(m[2].fs_ave_widths, sizes)))
          [] k = "flatness.ave_length_l1"   -> Tensor(TorchMean(FilterInactiveFactors(m[1].fs_ave_lengths, sizes)))
          [] OTHER                          -> Tensor(TorchMean(FilterInactiveFactors(m[2].fs_ave_lengths, sizes)))]

\* the assertions the three calls of compute_flatness make
AllChecks(m, sizes) ==
    /\ \A i \in 1..Len(sizes) : sizes[i] >= 1
    /\ ComputeFlatnessChecks(m[2].fs_ave_widths, m[1].fs_ave_lengths, sizes)
    /\ ComputeFlatnessChecks(m[1].fs_ave_widths, m[1].fs_ave_lengths, sizes)
    /\ ComputeFlatnessChecks(m[2].fs_ave_widths, m[2].fs_ave_lengths, sizes)

\* the dictionary returned without the conversion
KeepTensors(r) == r

\* {k: float(v) for k, v in results.items()}
FloatResults(r) == [k \in DOMAIN r |-> Float(r[k])]

\* lines 134-144 and 82-93: every factor is aggregated; compute the scores
Finalize ==
    /\ pc = "factor"
    /\ entry = "metric_flatness"
    /\ f_idx = num_factors
    /\ LET m == FinalizeMeasures(fs_p_measures, factor_sizes)
       IN  /\ p_fs_measures' = m
           /\ IF AllChecks(m, factor_sizes)
              THEN /\ results' = FloatResults(TensorResults(m, factor_sizes))
                   /\ pc' = "done"
                   /\ UNCHANGED raised
              ELSE /\ results' = None
                   /\ pc' = "AssertionError"
                   /\ raised' = Exception("AssertionError", {})
    /\ UNCHANGED <<args, elsewhere, rng, stream, call, prev, f_idx, factors, zs, p_measures, fs_p_measures,
                   fs_raw, calls, loaded>>

\* ------------------------------------------------------------------------
\* The caller: metric_flatness is called a second time (lines 269-270), with
\* the same random stream and either another batch_size or a dataset that
\* has one more factor of size 1
\* ------------------------------------------------------------------------
\* what a finished call has computed
Computed ==
    [results |-> results, calls |-> calls, loaded |-> loaded, fs_p_measures |-> fs_p_measures,
     fs_raw |-> fs_raw, p_fs_measures |-> p_fs_measures]

Outcome ==
    [factor_sizes |-> factor_sizes, rep |-> rep, factor_repeats |-> factor_repeats,
     batch_size |-> batch_size, results |-> results, computed |-> Computed, stream |-> stream]

CallAgain ==
    /\ pc = "done"
    /\ call = 1
    /\ prev' = Outcome
    /\ call' = 2
    /\ \/ /\ batch_size' \in 1..MaxBatch
          /\ UNCHANGED <<factor_sizes, extra>>
       \/ /\ extra' \in 1..(num_factors + 1)
          /\ factor_sizes' = InsertAt(factor_sizes, extra', 1)
          /\ UNCHANGED batch_size
    /\ pc' = "call"
    /\ UNCHANGED <<elsewhere, rep, factor_repeats, entry, cycle_fail, fail_at, raised, rng, stream, f_idx, factors, zs, p_measures,
                   fs_p_measures, fs_raw, p_fs_measures, results, calls, loaded>>

Next ==
    \/ Enter
    \/ SizeOneFactor
    \/ BeginFactor
    \/ SampleTraversal
    \/ EncodeChunk
    \/ MeasureTraversal
    \/ AggregateFactor
    \/ Finalize
    \/ CallAgain

Spec == Init /\ [][Next]_vars

\* ------------------------------------------------------------------------
\* One call of metric_flatness, without the second call of the driver
\* ------------------------------------------------------------------------
NextCall ==
    \/ Enter
    \/ SizeOneFactor
    \/ BeginFactor
    \/ SampleTraversal
    \/ EncodeChunk
    \/ MeasureTraversal
    \/ AggregateFactor
    \/ Finalize

SpecCall == Init /\ [][NextCall]_vars

\* ------------------------------------------------------------------------
\* Calls with any arguments: every entry point, any factor index, any batch
\* size, cycle_fail, and a representation function that raises
\* ------------------------------------------------------------------------
Entries == {"metric_flatness", "aggregate_measure_distances_along_factor", "encode_all_along_factor"}

\* the factor indices a direct call is given
IndexArgs == (0 - MaxIndex)..MaxIndex

\* the batch sizes a call is given
BatchArgs == (0 - 1)..2

\* the error representation_function raises
EncoderError == Exception("EncoderError", {})

InitArgs ==
    /\ factor_sizes \in FactorSizeLists
    /\ extra = 0
    /\ rep = "zig"
    /\ factor_repeats \in 1..MaxRepeats
    /\ batch_size \in BatchArgs
    /\ entry \in Entries
    /\ cycle_fail \in (IF entry = "aggregate_measure_distances_along_factor" THEN BOOLEAN ELSE {FALSE})
    /\ fail_at \in 0..MaxFailAt
    /\ raised = NoException
    /\ rng = 0
    /\ stream = <<>>
    /\ call = 1
    /\ prev = None
    /\ pc = IF entry = "metric_flatness" THEN "call" ELSE "factor"
    /\ f_idx \in (IF entry = "metric_flatness" THEN {0} ELSE IndexArgs)
    /\ factors = <<>>
    /\ zs = <<>>
    /\ p_measures = <<>>
    /\ fs_p_measures = <<>>
    /\ fs_raw = <<>>
    /\ p_fs_measures = None
    /\ results = None
    /\ calls = 0
    /\ loaded = 0
    /\ Elsewhere

\* lines 156 and 196: factor_sizes[f_idx] with an index the sequence rejects
RaiseIndexError ==
    /\ pc = "factor"
    /\ entry # "metric_flatness"
    /\ ~ValidIndex(num_factors, f_idx)
    /\ pc' = "IndexError"
    /\ raised' = Exception("IndexError", {})
    /\ UNCHANGED <<args, elsewhere, rng, stream, call, prev, f_idx, factors, zs, p_measures, fs_p_measures,
                   fs_raw, p_fs_measures, results, calls, loaded>>

\* the values the message of line 160 is formatted from: size={f_size}
SizeErrorFields(idx, size) == {<<"size", size>>}

\* lines 158-160: a factor of size 1 with cycle_fail
RaiseSizeError ==
    /\ pc = "factor"
    /\ entry # "encode_all_along_factor"
    /\ Pending
    /\ ValidIndex(num_factors, f_idx)
    /\ FactorSize = 1
    /\ cycle_fail
    /\ pc' = "ValueError"
    /\ raised' = Exception("ValueError", SizeErrorFields(f_idx, FactorSize))
    /\ UNCHANGED <<args, elsewhere, rng, stream, call, prev, f_idx, factors, zs, p_measures, fs_p_measures,
                   fs_raw, p_fs_measures, results, calls, loaded>>

\* line 217: chunked is given a chunk size that is not positive
RaiseChunkSize ==
    /\ pc = "encode"
    /\ Len(zs) < Len(factors)
    /\ batch_size < 1
    /\ pc' = "ChunkSizeError"
    /\ raised' = Exception("ChunkSizeError", {})
    /\ UNCHANGED <<args, elsewhere, rng, stream, call, prev, f_idx, factors, zs, p_measures, fs_p_measures,
                   fs_raw, p_fs_measures, results, calls, loaded>>

\* a handler that raises an error of its own in place of the one it caught
Wrapped(e) == Exception("RuntimeError", {<<"cause", e.type>>})

\* the error passes through lines 219, 200, 169, 128 and 80: no handler
Propagate(e) == e

\* lines 219 and 226: representation_function raises; nothing catches it
RepRaises ==
    /\ \/ pc = "encode" /\ Len(zs) < Len(factors) /\ batch_size >= 1
       \/ /\ pc = "factor" /\ entry # "encode_all_along_factor" /\ Pending
          /\ ValidIndex(num_factors, f_idx) /\ FactorSize = 1 /\ ~cycle_fail
    /\ calls + 1 = fail_at
    /\ calls' = calls + 1
    /\ loaded' = loaded + (IF pc = "encode" THEN Len(Chunk(factors, Len(zs), batch_size)) ELSE 1)
    /\ pc' = "EncoderError"
    /\ raised' = Propagate(EncoderError)
    /\ UNCHANGED <<args, elsewhere, rng, stream, call, prev, f_idx, factors, zs, p_measures, fs_p_measures,
                   fs_raw, p_fs_measures, results>>

\* line 187: aggregate_measure_distances_along_factor, called directly, returns
ReturnMeasures ==
    /\ pc = "factor"
    /\ entry = "aggregate_measure_distances_along_factor"
    /\ fs_p_measures # <<>>
    /\ results' = fs_p_measures[1]
    /\ pc' = "done"
    /\ UNCHANGED <<args, elsewhere, raised, rng, stream, call, prev, f_idx, factors, zs, p_measures,
                   fs_p_measures, fs_raw, p_fs_measures, calls, loaded>>

\* line 201: encode_all_along_factor, called directly, returns the traversal
ReturnTraversal ==
    /\ pc = "encode"
    /\ entry = "encode_all_along_factor"
    /\ Len(zs) = Len(factors)
    /\ results' = zs
    /\ pc' = "done"
    /\ UNCHANGED <<args, elsewhere, raised, rng, stream, call, prev, f_idx, factors, zs, p_measures,
                   fs_p_measures, fs_raw, p_fs_measures, calls, loaded>>

NextArgs ==
    \/ Enter
    \/ SizeOneFactor
    \/ BeginFactor
    \/ SampleTraversal
    \/ EncodeChunk
    \/ MeasureTraversal
    \/ AggregateFactor
    \/ Finalize
    \/ RaiseIndexError
    \/ RaiseSizeError
    \/ RaiseChunkSize
    \/ RepRaises
    \/ ReturnMeasures
    \/ ReturnTraversal

SpecArgs == InitArgs /\ [][NextArgs]_vars

\* ------------------------------------------------------------------------
\* compute_flatness called directly, on any widths, lengths and factor sizes,
\* as lines 83-90 call it: twice on tensors the caller holds, which are then
\* averaged
\* ------------------------------------------------------------------------

\* the factor size lists of a direct call: sizes below 1 included
FlatSizeLists ==
    {<<a>> : a \in 0..MaxFactorSize} \cup {<<a, b>> : a \in 0..MaxFactorSize, b \in 0..MaxFactorSize}

\* the values of the tensors of a direct call
FlatValues == {RInt(v) : v \in (0 - 1)..MaxMeasure}

InitFlat ==
    /\ entry = "compute_flatness"
    /\ factor_sizes \in FlatSizeLists
    /\ arg_widths \in [1..Len(factor_sizes) -> FlatValues]
    /\ arg_lengths \in [1..Len(factor_sizes) -> FlatValues]
    /\ pc = "compute_flatness"
    /\ results = <<>>
    /\ raised = NoException
    /\ NoMetric
    /\ NoSampler
    /\ NoServer

\* line 112: assert torch.all(factor_sizes >= 1)
FilterChecks(sizes) == \A i \in 1..Len(sizes) : sizes[i] >= 1

\* tensor[active_factors] is a view: it shares the storage of tensor
FilteredIsView == TRUE

\* line 115: tensor[active_factors] indexes with a tuple of index tensors
\* (advanced indexing), which copies: the result does not share storage
FilteredShares == FALSE

\* the caller's widths after lines 104-105 ran on the filtered tensors
WidthsAfter(w, l, sizes) ==
    IF FilteredShares
    THEN [i \in 1..Len(w) |-> IF sizes[i] - 1 # 0 /\ l[i][1] = 0 THEN RInt(0) ELSE w[i]]
    ELSE w

\* the caller's lengths after lines 104-105 ran on the filtered tensors
LengthsAfter(w, l, sizes) ==
    IF FilteredShares
    THEN [i \in 1..Len(l) |-> IF sizes[i] - 1 # 0 /\ l[i][1] = 0 THEN RInt(1) ELSE l[i]]
    ELSE l

\* lines 96-107: one call of compute_flatness
CallComputeFlatness ==
    /\ pc \in {"compute_flatness", "compute_flatness_again"}
    /\ IF FilterChecks(factor_sizes) /\ ComputeFlatnessChecks(arg_widths, arg_lengths, factor_sizes)
       THEN /\ results' = Append(results, ComputeFlatness(arg_widths, arg_lengths, factor_sizes))
            /\ arg_widths' = WidthsAfter(arg_widths, arg_lengths, factor_sizes)
            /\ arg_lengths' = LengthsAfter(arg_widths, arg_lengths, factor_sizes)
            /\ pc' = IF pc = "compute_flatness" THEN "compute_flatness_again" ELSE "mean"
            /\ UNCHANGED raised
       ELSE /\ pc' = "AssertionError"
            /\ raised' = Exception("AssertionError", {})
            /\ UNCHANGED <<results, arg_widths, arg_lengths>>
    /\ UNCHANGED <<metric, sampler, server>>

\* lines 89-90: torch.mean(filter_inactive_factors(lengths, factor_sizes))
MeanOfLengths ==
    /\ pc = "mean"
    /\ results' = Append(results, TorchMean(FilterInactiveFactors(arg_lengths, factor_sizes)))
    /\ pc' = "done"
    /\ UNCHANGED <<metric, flat_args, sampler, server, raised>>

NextFlat ==
    \/ CallComputeFlatness
    \/ MeanOfLengths

SpecFlat == InitFlat /\ [][NextFlat]_vars

\* ------------------------------------------------------------------------
\* RandomEpisodeSampler, src/disent/dataset/episodes/_random_episodes.py
\* ------------------------------------------------------------------------

\* the longest episode, the largest offset of an episode in the dataset, and
\* the value at which the count of loop iterations stops growing
MaxLen == 3
MaxOffset == 2
MaxDraws == 3

\* the episodes of the dataset: sequences of observations
Episodes == {[i \in 1..len |-> i] : len \in 1..MaxLen}

\* num_samples as the constructor takes it
NumSamples == 0..(MaxLen + 1)

\* sample_radius as the constructor takes it: None, or an integer
SampleRadii == {<<>>} \cup {<<r>> : r \in (0 - (MaxLen + 2))..(MaxLen + 1)}

\* line 53: get_episode_and_idx gives an episode, an index inside it and the
\* offset of the episode in the dataset
InitSampler ==
    /\ entry = "RandomEpisodeSampler"
    /\ factor_sizes = <<>>
    /\ episode \in Episodes
    /\ episode_idx \in 0..(Len(episode) - 1)
    /\ offset \in 0..MaxOffset
    /\ num_samples \in NumSamples
    /\ sample_radius \in SampleRadii
    /\ indices = {}
    /\ draws = 0
    /\ pc = "__call__"
    /\ results = <<>>
    /\ raised = NoException
    /\ NoMetric
    /\ NoFlatArgs
    /\ NoServer

\* lines 63-66: None is the length of the episode, a negative radius counts
\* from the length of the episode
Radius(len, radius) ==
    IF radius = <<>> THEN len
    ELSE IF radius[1] < 0 THEN len + radius[1] + 1 ELSE radius[1]

\* lines 67-68: assert n <= len(episode); assert n <= radius
SamplerChecks(len, n, radius) == n <= len /\ n <= radius

\* a loop that runs while the set has at most n elements
NeedMoreOrEqual(set, n) == Cardinality(set) <= n

\* line 71: while len(indices) < n
NeedMore(set, n) == Cardinality(set) < n

\* sample_radius(idx, low=0, high=len(episode), r_low=0, r_high=radius): the
\* values it can return, those of [low, high) nearer than r_high to idx
Candidates(idx, len, radius) ==
    {j \in 0..(len - 1) : j - idx < radius /\ idx - j < radius}

SetMin(S) == CHOOSE x \in S : \A y \in S : x <= y

\* sorted(indices) without the reversal
RECURSIVE SortedAscending(_)
SortedAscending(S) ==
    IF S = {} THEN <<>> ELSE <<SetMin(S)>> \o SortedAscending(S \ {SetMin(S)})

\* line 77: sorted(indices)[::-1]
RECURSIVE SortedDescending(_)
SortedDescending(S) ==
    IF S = {} THEN <<>> ELSE <<SetMax(S)>> \o SortedDescending(S \ {SetMax(S)})

\* lines 54 and 63-70: sample_episode_indices is called; it checks its
\* arguments and starts from the set {idx}
SampleEpisodeIndices ==
    /\ pc = "__call__"
    /\ IF SamplerChecks(Len(episode), num_samples, Radius(Len(episode), sample_radius))
       THEN /\ indices' = {episode_idx}
            /\ pc' = "while"
            /\ UNCHANGED raised
       ELSE /\ pc' = "AssertionError"
            /\ raised' = Exception("AssertionError", {})
            /\ UNCHANGED indices
    /\ UNCHANGED <<metric, flat_args, server, episode, episode_idx, offset, num_samples, sample_radius,
                   draws, results>>

\* lines 71-72: one iteration of the loop, in which sample_radius returns j
Draw(j) ==
    /\ pc = "while"
    /\ NeedMore(indices, num_samples)
    /\ j \in Candidates(episode_idx, Len(episode), Radius(Len(episode), sample_radius))
    /\ indices' = indices \cup {j}
    /\ draws' = IF draws < MaxDraws THEN draws + 1 ELSE draws
    /\ UNCHANGED <<metric, flat_args, server, episode, episode_idx, offset, num_samples, sample_radius,
                   pc, results, raised>>

DrawAny == \E j \in 0..(MaxLen - 1) : Draw(j)

\* line 77: the loop is over; the indices are returned from highest to lowest
ReturnIndices ==
    /\ pc = "while"
    /\ ~NeedMore(indices, num_samples)
    /\ results' = <<SortedDescending(indices)>>
    /\ pc' = "offset"
    /\ UNCHANGED <<metric, flat_args, server, sampler, raised>>

\* line 56: return tuple(i + offset for i in indices)
ReturnCall ==
    /\ pc = "offset"
    /\ results' = Append(results, [i \in 1..Len(results[1]) |-> results[1][i] + offset])
    /\ pc' = "done"
    /\ UNCHANGED <<metric, flat_args, server, sampler, raised>>

NextSampler == SampleEpisodeIndices \/ DrawAny \/ ReturnIndices \/ ReturnCall

SpecSampler == InitSampler /\ [][NextSampler]_vars

\* the sampler is scheduled, and sample_radius is fair over its candidates:
\* a value it can return and that would change the set is returned eventually
FairSpecSampler ==
    /\ SpecSampler
    /\ WF_vars(SampleEpisodeIndices)
    /\ WF_vars(ReturnIndices)
    /\ WF_vars(ReturnCall)
    /\ \A j \in 0..(MaxLen - 1) : WF_vars(Draw(j))

\* ------------------------------------------------------------------------
\* The image dashboard server, src/experiment/img_dashboard/server.py
\* ------------------------------------------------------------------------

\* line 28
ROW_SIZE == 9

\* the number of uuid4() calls up to which uploads are followed
MaxUploads == 11

\* the names of the files of an upload, i.e. the rows of the dashboard
Keys == {"a", "b"}

\* the files of an upload: one that imageio can read, and one it cannot
Files == {"image", "junk"}

\* request.files: no file, one file, or two files, each under some key
Requests ==
    {<<>>} \cup {<<f>> : f \in Keys \X Files} \cup {<<f, g>> : f \in Keys \X Files, g \in Keys \X Files}

\* no request has been answered yet
NoResponse == [request |-> <<>>, body |-> ""]

\* lines 59-60: the state of a server that has just started
InitServer ==
    /\ entry = "server"
    /\ factor_sizes = <<>>
    /\ IMAGE_QUEUE = <<>>
    /\ UUID_TO_IMAGE = {}
    /\ uuids = 0
    /\ response = NoResponse
    /\ pc = "serve"
    /\ results = <<>>
    /\ raised = NoException
    /\ NoMetric
    /\ NoFlatArgs
    /\ NoSampler

\* imageio.imread(file.read()) raises on a file that is not an image
Readable(file) == file = "image"

\* imageio.imwrite('<bytes>', img, IMAGE_FORMAT)
Imwrite(img) == "png"

\* IMAGE_QUEUE[key] without creating the row
Row(queue, key) == IF key \in DOMAIN queue THEN queue[key] ELSE <<>>

\* queue with the row of key set to row
WithRow(queue, key, row) ==
    [k \in DOMAIN queue \cup {key} |-> IF k = key THEN row ELSE queue[k]]

\* a deque that drops the new element when it is full
AppendUnlessFull(row, a) == IF Len(row) >= ROW_SIZE THEN row ELSE Append(row, a)

\* deque(maxlen=ROW_SIZE).append(a): a full deque discards its oldest element
DequeAppend(row, a) == IF Len(row) >= ROW_SIZE THEN Append(Tail(row), a) ELSE Append(row, a)

\* the dictionary without the entry of uuid
Deleted(store, uuid) == {e \in store : e[1] # uuid}

\* lines 63-87: push_list_image(key, img) with serve=True, uuid4() giving uuid
PushListImage(queue, store, key, uuid) ==
    LET stored == store \cup {<<uuid, Imwrite("image")>>}
        appended == DequeAppend(Row(queue, key), uuid)
    IN  IF Len(appended) > ROW_SIZE
        THEN [queue |-> WithRow(queue, key, Tail(appended)),
              store |-> Deleted(stored, Head(appended))]
        ELSE [queue |-> WithRow(queue, key, appended), store |-> stored]

\* lines 95-100: the files of the request one after the other; a file that
\* cannot be read is skipped
RECURSIVE PushFiles(_, _, _, _)
PushFiles(queue, store, n, files) ==
    IF files = <<>> THEN [queue |-> queue, store |-> store, uuids |-> n]
    ELSE IF Readable(Head(files)[2])
         THEN LET pushed == PushListImage(queue, store, Head(files)[1], n + 1)
              IN  PushFiles(pushed.queue, pushed.store, n + 1, Tail(files))
         ELSE PushFiles(queue, store, n, Tail(files))

\* the number of files of the request that can be read
RECURSIVE NumReadable(_)
NumReadable(files) ==
    IF files = <<>> THEN 0
    ELSE (IF Readable(Head(files)[2]) THEN 1 ELSE 0) + NumReadable(Tail(files))

\* lines 90-101: POST /api/image
UploadImage(files) ==
    /\ pc = "serve"
    /\ uuids + NumReadable(files) <= MaxUploads
    /\ IF files = <<>>
       THEN /\ response' = [request |-> <<"POST">>, body |-> "[ERROR] no media in request"]
            /\ UNCHANGED <<IMAGE_QUEUE, UUID_TO_IMAGE, uuids>>
       ELSE LET pushed == PushFiles(IMAGE_QUEUE, UUID_TO_IMAGE, uuids, files)
            IN  /\ IMAGE_QUEUE' = pushed.queue
                /\ UUID_TO_IMAGE' = pushed.store
                /\ uuids' = pushed.uuids
                /\ response' = [request |-> <<"POST">>, body |-> "[SUCCESS]"]
    /\ UNCHANGED <<metric, flat_args, sampler, pc, results, raised>>

Upload == \E files \in Requests : UploadImage(files)

\* lines 104-112: GET /api/image/<uuid>
GetImage(uuid) ==
    /\ pc = "serve"
    /\ response' = [request |-> <<"GET", uuid>>,
                    body |-> IF \E e \in UUID_TO_IMAGE : e[1] = uuid
                             THEN (CHOOSE e \in UUID_TO_IMAGE : e[1] = uuid)[2]
                             ELSE "MISSING"]
    /\ UNCHANGED <<metric, flat_args, sampler, pc, results, raised, IMAGE_QUEUE, UUID_TO_IMAGE, uuids>>

\* a uuid the server has issued, or one it has not (0)
Get == \E uuid \in 0..uuids : GetImage(uuid)

\* lines 115-119: DELETE /api/images
ClearImages ==
    /\ pc = "serve"
    /\ IMAGE_QUEUE' = <<>>
    /\ UUID_TO_IMAGE' = {}
    /\ response' = [request |-> <<"DELETE">>, body |-> "SUCCESS"]
    /\ UNCHANGED <<metric, flat_args, sampler, pc, results, raised, uuids>>

NextServer == Upload \/ Get \/ ClearImages

SpecServer == InitServer /\ [][NextServer]_vars

TypeOK ==
    /\ pc \in {"call", "factor", "sample", "encode", "aggregate", "done", "AssertionError",
               "IndexError", "ValueError", "ChunkSizeError", "EncoderError",
               "compute_flatness", "compute_flatness_again", "mean",
               "__call__", "while", "offset", "serve"}
    /\ f_idx \in IndexArgs \cup (0..num_factors)
    /\ call \in 1..2
    /\ (raised.type = "None") <=> (pc \notin {"AssertionError", "IndexError", "ValueError",
                                       "ChunkSizeError", "EncoderError"})

\* ------------------------------------------------------------------------
\* Properties
\* ------------------------------------------------------------------------
Val(k) == results[k][2]

ActiveFactors == {f \in 1..num_factors : factor_sizes[f] >= 2}

RECURSIVE SumOver(_, _)
SumOver(S, t) ==
    IF S = {} THEN RInt(0)
    ELSE LET f == CHOOSE x \in S : TRUE IN RAdd(t[f], SumOver(S \ {f}, t))

MeanOver(S, t) == RDiv(SumOver(S, t), RInt(Cardinality(S)))

Ratio(w, l) == IF l[1] > 0 THEN RDiv(w, l) ELSE RInt(0)

CeilDiv(a, b) == (a + b - 1) \div b

\* the across-repeat averages of factor f, from the measures of its repeats
RepeatsWidth(f, p) ==
    Rat(ISum([r \in 1..Len(fs_raw[f]) |-> fs_raw[f][r][p].width]), Len(fs_raw[f]))

RepeatsLength(f, p) ==
    Rat(ISum([r \in 1..Len(fs_raw[f]) |-> ISum(fs_raw[f][r][p].deltas)]), Len(fs_raw[f]))

\* C1: chunking invariance: every encoded traversal is the row by row
\* encoding of its factor rows whatever the chunk size, and a call that
\* differs from the earlier call only in batch_size returns the same scores.
C1_ChunkingInvariance ==
    /\ (pc = "encode" /\ Len(zs) = Len(factors)) =>
          zs = [i \in 1..Len(factors) |-> Represent(rep, Observation(factors[i], extra))]
    /\ (pc = "done" /\ call = 2 /\ extra = 0) => results = prev.results

C1_Witness ==
    /\ pc = "done" /\ call = 2 /\ extra = 0
    /\ \E f \in 1..num_factors : 1 < prev.batch_size /\ prev.batch_size < factor_sizes[f]
    /\ \A f \in 1..num_factors : factor_sizes[f] < batch_size
    /\ Val("flatness.ave_width_l1")[1] > 0

\* C2: inactive-factor invariance: a call on the dataset with one more factor
\* of size 1, the observations and the sampled assignments of the other factors
\* being the same, returns the same seven scores (NaN counting as unchanged).
C2_InactiveFactorInvariance ==
    (pc = "done" /\ call = 2 /\ extra # 0) => results = prev.results

C2_Witness ==
    /\ pc = "done" /\ call = 2 /\ extra # 0
    /\ Cardinality(ActiveFactors) = 2
    /\ Val("flatness.ave_flatness")[1] > 0
    /\ Val("flatness.ave_flatness") # RInt(1)

\* C3 (as claimed): every value of the returned mapping is finite
C3_AllFinite ==
    pc = "done" => \A k \in DOMAIN results : IsFinite(results[k][2])

\* C4: zero-width-iff-zero-length: in every repeat the width is 0 exactly when
\* the sum of the retained deltas is 0, for each pair of norms; the same holds
\* of the per-factor averages of every factor of size >= 2, and the assertions
\* of compute_flatness never fail.
C4_ZeroWidthIffZeroLength ==
    /\ \A r \in 1..Len(p_measures) : \A p \in Ps, q \in Ps :
          (p_measures[r][p].width = 0) <=> (ISum(p_measures[r][q].deltas) = 0)
    /\ pc = "done" =>
          \A f \in ActiveFactors : \A p \in Ps, q \in Ps :
              (p_fs_measures[p].fs_ave_widths[f][1] = 0) <=> (p_fs_measures[q].fs_ave_lengths[f][1] = 0)
    /\ pc # "AssertionError"

C4_Witness ==
    /\ pc = "done"
    /\ \E f \in ActiveFactors : \E r1, r2 \in 1..Len(fs_raw[f]) :
          /\ fs_raw[f][r1][2].width = 0
          /\ ISum(fs_raw[f][r1][1].deltas) = 0
          /\ fs_raw[f][r2][2].width > 0
          /\ p_fs_measures[1].fs_ave_lengths[f][1] > 0

\* C5: norm consistency: when value i of every factor is encoded on one axis
\* at spacing d, every factor of size n >= 2 has width (n-1)*d and length
\* (n-1)*d under both norms and the three flatness scores are 1; for factor
\* sizes [1, 5] and d = 2 the width and the length are 8.
C5_NormConsistency ==
    (pc = "done" /\ rep \in {"line", "wide"}) =>
        /\ \A f \in ActiveFactors : \A p \in Ps :
              /\ p_fs_measures[p].fs_ave_widths[f] = RInt((factor_sizes[f] - 1) * LineSpacing(rep))
              /\ p_fs_measures[p].fs_ave_lengths[f] = RInt((factor_sizes[f] - 1) * LineSpacing(rep))
        /\ ActiveFactors # {} =>
              /\ Val("flatness.ave_flatness") = RInt(1)
              /\ Val("flatness.ave_flatness_l1") = RInt(1)
              /\ Val("flatness.ave_flatness_l2") = RInt(1)
        /\ (factor_sizes = <<1, 5>> /\ rep = "line") =>
              /\ Val("flatness.ave_width_l1") = RInt(8)
              /\ Val("flatness.ave_width_l2") = RInt(8)
              /\ Val("flatness.ave_length_l1") = RInt(8)
              /\ Val("flatness.ave_length_l2") = RInt(8)

C5_Witness ==
    /\ pc = "done" /\ call = 1
    /\ factor_sizes = <<1, 5>> /\ rep = "line"
    /\ Val("flatness.ave_flatness_l1") = RInt(1)
    /\ Val("flatness.ave_width_l1") = RInt(8)

C7_UnprefixedKeys ==
    pc = "done" =>
        /\ DOMAIN results = {"ave_flatness", "ave_flatness_l1", "ave_flatness_l2",
                             "ave_width_l1", "ave_width_l2", "ave_length_l1", "ave_length_l2"}
        /\ \A k \in DOMAIN results : results[k][1] = "float"

\* C7 (amended): the mapping has exactly the seven entries flatness.ave_flatness,
\* flatness.ave_flatness_l1, flatness.ave_flatness_l2, flatness.ave_width_l1,
\* flatness.ave_width_l2, flatness.ave_length_l1 and flatness.ave_length_l2,
\* each value a plain float and not a tensor.
C7_ResultMapping ==
    pc = "done" =>
        /\ DOMAIN results = {"flatness.ave_flatness", "flatness.ave_flatness_l1",
                             "flatness.ave_flatness_l2", "flatness.ave_width_l1",
                             "flatness.ave_width_l2", "flatness.ave_length_l1",
                             "flatness.ave_length_l2"}
        /\ Cardinality(DOMAIN results) = 7
        /\ \A k \in DOMAIN results : results[k][1] = "float"

C7_Witness ==
    /\ pc = "done" /\ call = 1
    /\ "flatness.ave_flatness" \in DOMAIN results
    /\ Val("flatness.ave_flatness")[1] > 0

\* C8: each same-norm flatness score is the mean over the factors of size >= 2
\* of width / length (0 when the length is 0), width and length being the
\* across-repeat averages of the factor; ave_width_* and ave_length_* are the
\* plain means of these averages over the same factors.
C8_MeanOfRatios ==
    pc = "done" =>
        /\ \A p \in Ps :
              Val(IF p = 1 THEN "flatness.ave_flatness_l1" ELSE "flatness.ave_flatness_l2")
                  = MeanOver(ActiveFactors,
                             [f \in ActiveFactors |-> Ratio(RepeatsWidth(f, p), RepeatsLength(f, p))])
        /\ \A p \in Ps :
              Val(IF p = 1 THEN "flatness.ave_width_l1" ELSE "flatness.ave_width_l2")
                  = MeanOver(ActiveFactors, [f \in ActiveFactors |-> RepeatsWidth(f, p)])
        /\ \A p \in Ps :
              Val(IF p = 1 THEN "flatness.ave_length_l1" ELSE "flatness.ave_length_l2")
                  = MeanOver(ActiveFactors, [f \in ActiveFactors |-> RepeatsLength(f, p)])

\* the mean over the repeats of the per-repeat ratios of factor f
MeanOfRepeatRatios(f, p) ==
    TorchMean([r \in 1..Len(fs_raw[f]) |->
                  Ratio(RInt(fs_raw[f][r][p].width), RInt(ISum(fs_raw[f][r][p].deltas)))])

C8_Witness ==
    /\ pc = "done"
    /\ Cardinality(ActiveFactors) = 2
    /\ Val("flatness.ave_flatness_l2")
          # RDiv(SumOver(ActiveFactors, [f \in ActiveFactors |-> RepeatsWidth(f, 2)]),
                 SumOver(ActiveFactors, [f \in ActiveFactors |-> RepeatsLength(f, 2)]))
    /\ \E f \in ActiveFactors :
          MeanOfRepeatRatios(f, 2) # Ratio(RepeatsWidth(f, 2), RepeatsLength(f, 2))

\* C9: ave_flatness pairs the p=2 widths with the p=1 lengths, ave_flatness_l1
\* the p=1 widths with the p=1 lengths, ave_flatness_l2 the p=2 widths with the
\* p=2 lengths, all from the measures of one pass: every traversal is sampled
\* and encoded once.
C9_NormPairing ==
    pc = "done" =>
        LET Score(wp, lp) ==
                MeanOver(ActiveFactors,
                         [f \in ActiveFactors |-> Ratio(p_fs_measures[wp].fs_ave_widths[f],
                                                        p_fs_measures[lp].fs_ave_lengths[f])])
        IN  /\ Val("flatness.ave_flatness") = Score(2, 1)
            /\ Val("flatness.ave_flatness_l1") = Score(1, 1)
            /\ Val("flatness.ave_flatness_l2") = Score(2, 2)
            /\ calls = ISum([f \in 1..num_factors |->
                               IF factor_sizes[f] = 1 THEN 1
                               ELSE factor_repeats * CeilDiv(factor_sizes[f], batch_size)])
            /\ call = 1 => Len(stream) = factor_repeats * Cardinality(ActiveFactors)

C9_Witness ==
    /\ pc = "done" /\ call = 1
    /\ Val("flatness.ave_flatness") # Val("flatness.ave_flatness_l1")
    /\ Val("flatness.ave_flatness") # Val("flatness.ave_flatness_l2")
    /\ Val("flatness.ave_flatness_l1") # Val("flatness.ave_flatness_l2")

\* C10: the length of factor f is (factor_sizes[f] - 1) * ave_delta[f], where
\* ave_delta[f] is the mean of all retained deltas of all repeats; it equals
\* the across-repeat average of the sum of the retained deltas of a traversal
\* and is 0 for a factor of size 1.
C10_LengthFromAveDelta ==
    pc = "done" =>
        \A f \in 1..num_factors : \A p \in Ps :
            IF factor_sizes[f] = 1 THEN p_fs_measures[p].fs_ave_lengths[f] = RInt(0)
            ELSE /\ \A r \in 1..Len(fs_raw[f]) : Len(fs_raw[f][r][p].deltas) = factor_sizes[f] - 1
                 /\ Len(fs_raw[f]) = factor_repeats
                 /\ fs_p_measures[f][p].ave_delta
                       = Rat(ISum([r \in 1..Len(fs_raw[f]) |-> ISum(fs_raw[f][r][p].deltas)]),
                             factor_repeats * (factor_sizes[f] - 1))
                 /\ p_fs_measures[p].fs_ave_lengths[f]
                       = RMul(RInt(factor_sizes[f] - 1), fs_p_measures[f][p].ave_delta)
                 /\ p_fs_measures[p].fs_ave_lengths[f] = RepeatsLength(f, p)

C10_Witness ==
    /\ pc = "done"
    /\ \E f \in ActiveFactors : \E r1, r2 \in 1..Len(fs_raw[f]) :
          /\ factor_sizes[f] = 3
          /\ ISum(fs_raw[f][r1][2].deltas) # ISum(fs_raw[f][r2][2].deltas)
          /\ fs_p_measures[f][2].ave_delta[2] # 1
    /\ \E f \in 1..num_factors : factor_sizes[f] = 1

\* ------------------------------------------------------------------------
\* The measures of one traversal
\* ------------------------------------------------------------------------

\* the traversal in zs has just been measured
Measured == pc \in {"sample", "aggregate"} /\ p_measures # <<>>

LastMeasure == p_measures[Len(p_measures)]

\* the distance from point i of the traversal to point j
Dist(p, i, j) == Norm(p, zs[i], zs[j])

\* the position after i on the cycle
Succ(i) == IF i = Len(zs) THEN 1 ELSE i + 1

\* C11: the width of a traversal is the maximum norm-p distance over all pairs
\* of its points (its diameter): it is the distance of some pair, no pair is
\* further apart, and so it is at least every raw consecutive delta.
C11_WidthIsDiameter ==
    Measured =>
        \A p \in Ps :
            /\ \E i, j \in 1..Len(zs) : LastMeasure[p].width = Dist(p, i, j)
            /\ \A i, j \in 1..Len(zs) : Dist(p, i, j) <= LastMeasure[p].width
            /\ \A i \in 1..Len(zs) : Dist(p, i, Succ(i)) <= LastMeasure[p].width

\* a traversal whose two furthest points are not consecutive
C11_Witness ==
    /\ Measured
    /\ \E p \in Ps : \A i \in 1..Len(zs) : Dist(p, i, Succ(i)) < LastMeasure[p].width

\* the number of occurrences of v in the sequence s
Count(s, v) == Cardinality({i \in 1..Len(s) : s[i] = v})

\* the n distances from point i to point (i+1) mod n
CyclicDeltas(p) == [i \in 1..Len(zs) |-> Dist(p, i, Succ(i))]

MaxCyclicDelta(p) == SetMax({CyclicDeltas(p)[i] : i \in 1..Len(zs)})

\* C12: the retained deltas of a traversal of n points are the multiset of its
\* n cyclic consecutive distances with exactly one occurrence of the maximum
\* removed, also when the maximum is tied; they are always n-1.
C12_RetainedDeltas ==
    Measured =>
        \A p \in Ps :
            LET kept == LastMeasure[p].deltas
                raw  == CyclicDeltas(p)
            IN  /\ Len(kept) = Len(zs) - 1
                /\ \A v \in {raw[i] : i \in 1..Len(raw)} \cup {kept[i] : i \in 1..Len(kept)} :
                      Count(kept, v) = Count(raw, v) - (IF v = MaxCyclicDelta(p) THEN 1 ELSE 0)

\* a traversal of three or more points whose largest cyclic delta is tied
C12_Witness ==
    /\ Measured
    /\ Len(zs) >= 3
    /\ \E p \in Ps :
          /\ MaxCyclicDelta(p) > 0
          /\ Count(CyclicDeltas(p), MaxCyclicDelta(p)) >= 2
          /\ Count(LastMeasure[p].deltas, MaxCyclicDelta(p)) >= 1

\* C13: the factor rows of a traversal along factor f are factor_sizes[f]
\* copies of one sampled assignment with column f overwritten by 0 .. n-1 in
\* increasing order, every other column identical across the rows; row i of
\* the encoded traversal is the representation of the row in which factor f
\* has the value i, and the encoded traversal has exactly factor_sizes[f] rows.
C13_FactorRows ==
    /\ Measured => Len(zs) = factor_sizes[f_idx + 1]
    /\ pc = "encode" =>
        LET f == f_idx + 1
            n == factor_sizes[f]
        IN  /\ Len(factors) = n
            /\ \A i \in 1..n : factors[i][f] = i - 1
            /\ \A i \in 1..n : \A c \in 1..num_factors : c # f => factors[i][c] = factors[1][c]
            /\ \A i \in 1..n : factors[i] \in Assignments(factor_sizes)
            /\ call = 1 => \A c \in 1..num_factors : c # f => factors[1][c] = stream[Len(stream)][c]
            /\ Len(zs) <= n
            /\ \A i \in 1..Len(zs) :
                  \E r \in 1..n : /\ factors[r][f] = i - 1
                                  /\ zs[i] = Represent(rep, Observation(factors[r], extra))

\* a fully encoded traversal of three rows along the second factor, the first
\* factor held at a value other than 0, the rows encoded to different points
C13_Witness ==
    /\ pc = "encode"
    /\ call = 1
    /\ num_factors = 2 /\ f_idx = 1
    /\ Len(factors) = 3 /\ Len(zs) = 3
    /\ factors[1][1] # 0
    /\ zs[1] # zs[2] /\ zs[2] # zs[3]

\* ------------------------------------------------------------------------
\* Calls that end in an error
\* ------------------------------------------------------------------------

\* nothing has been drawn from the dataset and the representation function
\* has not been called
NothingDone == calls = 0 /\ loaded = 0 /\ stream = <<>> /\ factors = <<>> /\ zs = <<>>

DirectCall == entry # "metric_flatness"

\* C14: for every f_idx outside 0 .. num_factors-1 (f_idx >= num_factors and
\* also f_idx < 0) encode_all_along_factor and
\* aggregate_measure_distances_along_factor fail with an index error before the
\* dataset is sampled and before the representation function is called, and
\* return no result.
C14_OutOfRangeIndexFails ==
    (DirectCall /\ f_idx \notin 0..(num_factors - 1)) =>
        /\ pc \in {"factor", "IndexError"}
        /\ NothingDone

\* C15: a call of metric_flatness (or of the traversal encoder) with
\* batch_size <= 0 fails with a precondition violation before any factor
\* assignment is sampled and before the representation function is called, for
\* every dataset, and returns no partial result.
C15_BadBatchSizeFailsFirst ==
    (/\ batch_size <= 0
     /\ entry \in {"metric_flatness", "encode_all_along_factor"}
     /\ f_idx >= 0
     /\ fail_at = 0) =>
        /\ pc # "done"
        /\ NothingDone
        /\ rng = 0

\* the names of the values an exception's message states
Named(e) == {x[1] : x \in e.fields}

\* C16: aggregate_measure_distances_along_factor with cycle_fail on a factor of
\* size 1 fails with a sizing error whose content names the offending factor
\* and its size, without calling the representation function; without
\* cycle_fail a factor of size 1 raises nothing.
C16_SizeErrorNamesFactorAndSize ==
    /\ pc = "ValueError" =>
          /\ calls = 0
          /\ raised.type = "ValueError"
          /\ <<"size", FactorSize>> \in raised.fields
          /\ "factor" \in Named(raised)
    /\ (/\ entry = "aggregate_measure_distances_along_factor"
        /\ ValidIndex(num_factors, f_idx)
        /\ FactorSize = 1
        /\ ~cycle_fail
        /\ fail_at = 0) => raised = NoException

\* ------------------------------------------------------------------------
\* Factors of size 1 and the observations a call loads
\* ------------------------------------------------------------------------
ZeroMeasure == [ave_width |-> RInt(0), ave_delta |-> RInt(0)]

\* C17: for a factor of size 1 under the default configuration the factor-level
\* aggregation returns ave_width = 0 and ave_delta = 0 for every norm, builds
\* no traversal, and calls the representation function exactly once (the device
\* query), whatever the number of repeats.
C17_SizeOneFactor ==
    /\ (/\ entry = "aggregate_measure_distances_along_factor"
        /\ pc = "done"
        /\ FactorSize = 1) =>
            /\ DOMAIN results = Ps
            /\ \A p \in Ps : results[p] = ZeroMeasure
            /\ calls = 1
            /\ loaded = 1
            /\ factors = <<>> /\ zs = <<>> /\ stream = <<>>
    /\ (entry = "metric_flatness" /\ pc = "done") =>
            \A f \in 1..num_factors :
                factor_sizes[f] = 1 =>
                    /\ \A p \in Ps : fs_p_measures[f][p] = ZeroMeasure
                    /\ fs_raw[f] = <<>>

\* a direct call on a factor of size 1 with more than one repeat has returned
C17_Witness ==
    /\ entry = "aggregate_measure_distances_along_factor"
    /\ pc = "done"
    /\ FactorSize = 1
    /\ factor_repeats > 1
    /\ calls = 1

\* C18: if the representation function raises on any of its calls,
\* metric_flatness raises that same error, makes no further call of the
\* representation function and returns no mapping.
C18_EncoderErrorPropagates ==
    /\ fail_at # 0 => calls <= fail_at
    /\ (fail_at # 0 /\ calls = fail_at) =>
          /\ pc = "EncoderError"
          /\ raised = EncoderError
          /\ results = None
    /\ pc = "EncoderError" => (fail_at # 0 /\ calls = fail_at)

\* metric_flatness fails on a later call, a factor being aggregated already
C18_Witness ==
    /\ entry = "metric_flatness"
    /\ pc = "EncoderError"
    /\ calls >= 2
    /\ fs_p_measures # <<>>
    /\ zs # <<>>

\* the sum of the sizes of the factors in S
SizeSum(S) == SumOver(S, [f \in 1..num_factors |-> RInt(factor_sizes[f])])[1]

\* C19 as stated: one call of metric_flatness loads factor_repeats *
\* sum(factor_sizes) observations in total, for every dataset whose factor
\* sizes are >= 1.
C19_LoadsRepeatsTimesSizes ==
    pc = "done" => loaded = factor_repeats * SizeSum(1..num_factors)

\* C19, amended: one call of metric_flatness loads factor_repeats times the sum
\* of the sizes of the factors of size >= 2, plus one observation for each
\* factor of size 1 (the device query), whatever the batch size.
C19_LoadedObservations ==
    pc = "done" =>
        loaded = factor_repeats * SizeSum(ActiveFactors)
                    + Cardinality((1..num_factors) \ ActiveFactors)

\* a finished call with several repeats on a dataset that has a factor of
\* size 1 and a factor of size 3, encoded in more than one chunk
C19_Witness ==
    /\ pc = "done"
    /\ factor_repeats > 1
    /\ batch_size = 2
    /\ \E f, g \in 1..num_factors : factor_sizes[f] = 1 /\ factor_sizes[g] = 3

\* ------------------------------------------------------------------------
\* The discarded delta
\* ------------------------------------------------------------------------

\* the consecutive distances i -> i+1 without the closing edge n-1 -> 0
OpenDeltas(p) == SubSeq(CyclicDeltas(p), 1, Len(zs) - 1)

ClosingDelta(p) == CyclicDeltas(p)[Len(zs)]

SameMultiset(s, t) ==
    /\ Len(s) = Len(t)
    /\ \A i \in 1..Len(s) : Count(s, s[i]) = Count(t, s[i])

\* C20 as stated: the delta discarded from a traversal is the closing edge from
\* the last point back to the first; the retained deltas are exactly the n-1
\* consecutive distances i -> i+1, and their sum is the open-path length.
C20_DiscardsClosingEdge ==
    Measured =>
        \A p \in Ps :
            /\ SameMultiset(LastMeasure[p].deltas, OpenDeltas(p))
            /\ ISum(LastMeasure[p].deltas) = ISum(OpenDeltas(p))

\* C20, amended: the discarded delta is a largest of the n cyclic deltas,
\* whichever edge that is. The sum of the retained deltas is the cyclic length
\* minus the largest delta; it never exceeds the open-path length and equals it
\* exactly when no delta is larger than the closing edge, in which case the
\* retained deltas are the n-1 consecutive distances i -> i+1.
C20_DiscardsLargestDelta ==
    Measured =>
        \A p \in Ps :
            LET kept == LastMeasure[p].deltas
            IN  /\ ISum(kept) = ISum(CyclicDeltas(p)) - MaxCyclicDelta(p)
                /\ ISum(kept) <= ISum(OpenDeltas(p))
                /\ (ISum(kept) = ISum(OpenDeltas(p))) <=> (ClosingDelta(p) = MaxCyclicDelta(p))
                /\ ClosingDelta(p) = MaxCyclicDelta(p) => SameMultiset(kept, OpenDeltas(p))
                /\ ClosingDelta(p) < MaxCyclicDelta(p) =>
                      /\ Count(kept, ClosingDelta(p)) >= 1
                      /\ ~SameMultiset(kept, OpenDeltas(p))

\* a traversal of three or more points whose closing edge is shorter than one
\* of its consecutive distances: that distance is discarded
C20_Witness ==
    /\ Measured
    /\ Len(zs) >= 3
    /\ \E p \in Ps :
          /\ ClosingDelta(p) < MaxCyclicDelta(p)
          /\ ISum(LastMeasure[p].deltas) < ISum(OpenDeltas(p))

\* ------------------------------------------------------------------------
\* The order of the calls
\* ------------------------------------------------------------------------

\* the calls of representation_function the first k factors take
RECURSIVE CallsOfFactors(_)
CallsOfFactors(k) ==
    IF k = 0 THEN 0
    ELSE CallsOfFactors(k - 1)
            + (IF factor_sizes[k] = 1 THEN 1
               ELSE factor_repeats * CeilDiv(factor_sizes[k], batch_size))

\* the calls the finished repeats of the current factor took
CallsOfRepeats == Len(p_measures) * CeilDiv(factor_sizes[f_idx + 1], batch_size)

C21_Counts ==
    /\ pc \in {"factor", "done"} =>
          /\ calls = CallsOfFactors(f_idx)
          /\ Len(fs_p_measures) = f_idx
    /\ pc \in {"sample", "aggregate"} =>
          /\ calls = CallsOfFactors(f_idx) + CallsOfRepeats
          /\ Len(fs_p_measures) = f_idx
          /\ Len(p_measures) <= factor_repeats
    /\ pc = "encode" =>
          /\ calls = CallsOfFactors(f_idx) + CallsOfRepeats + CeilDiv(Len(zs), batch_size)
          /\ Len(zs) % batch_size = 0 \/ Len(zs) = Len(factors)
          /\ Len(p_measures) < factor_repeats
          /\ \A i \in 1..Len(zs) : zs[i] = Represent(rep, Observation(factors[i], extra))

C21_Step ==
    /\ zs' # zs /\ zs' # <<>> =>
          /\ calls' = calls + 1
          /\ Len(zs') = Min(Len(zs) + batch_size, Len(factors))
          /\ SubSeq(zs', 1, Len(zs)) = zs
    /\ f_idx' # f_idx =>
          /\ f_idx' = f_idx + 1
          /\ factor_sizes[f_idx'] = 1 \/ Len(p_measures) = factor_repeats
    /\ Len(p_measures') > Len(p_measures) => Len(zs) = Len(factors)

\* C21: within one traversal of n rows with batch_size b >= 1 the
\* representation function is called exactly ceil(n/b) times, on consecutive
\* row ranges of at most b rows in increasing row order, one call after the
\* other; the outputs are concatenated in call order; the factors are processed
\* in index order and all repeats of a factor finish before the next starts.
C21_ChunkAndFactorOrder == []C21_Counts /\ [][C21_Step]_vars

\* the last, shorter chunk of a traversal of the second factor is encoded,
\* after a first factor that took several repeats
C21_Witness ==
    /\ pc = "encode"
    /\ f_idx = 1
    /\ factor_sizes[1] >= 2
    /\ factor_repeats >= 2
    /\ batch_size = 2
    /\ Len(factors) = 3 /\ Len(zs) = 3
    /\ Len(p_measures) = 1

\* ------------------------------------------------------------------------
\* compute_flatness: its assertions and its arguments
\* ------------------------------------------------------------------------

\* the factors of the direct call that have two or more values
FlatActive == {i \in 1..Len(factor_sizes) : factor_sizes[i] >= 2}

\* a factor of size >= 2 with a negative measure or an unpaired zero
BadPair ==
    \E i \in FlatActive :
        \/ arg_widths[i][1] < 0
        \/ arg_lengths[i][1] < 0
        \/ arg_widths[i][1] > 0 /\ arg_lengths[i][1] = 0
        \/ arg_widths[i][1] = 0 /\ arg_lengths[i][1] > 0

BadSize == \E i \in 1..Len(factor_sizes) : factor_sizes[i] < 1

\* C22: compute_flatness raises an assertion error and returns no score
\* whenever some factor of size >= 2 has a negative width or length, or a
\* width > 0 with length = 0, or a width = 0 with length > 0; the values of the
\* factors of size 1 are filtered out before the checks and never trigger them;
\* filter_inactive_factors raises when a factor size is below 1.
C22_FlatnessAssertions ==
    pc # "compute_flatness" =>
        /\ (pc = "AssertionError") <=> (BadPair \/ BadSize)
        /\ pc = "AssertionError" => (results = <<>> /\ raised.type = "AssertionError")
        /\ pc # "AssertionError" => (Len(results) >= 1 /\ raised = NoException)

\* width > 0 with length 0 on a factor of size 2 raises, next to a factor of
\* size 1 whose values are fine
C22_Witness ==
    /\ pc = "AssertionError"
    /\ \E i, j \in 1..Len(factor_sizes) :
          /\ factor_sizes[i] = 2 /\ arg_widths[i][1] > 0 /\ arg_lengths[i][1] = 0
          /\ factor_sizes[j] = 1 /\ arg_widths[j][1] = 0 /\ arg_lengths[j][1] = 0

RLeq(a, b) == a[1] * b[2] <= b[1] * a[2]

InUnitInterval(x) == IsFinite(x) /\ RLeq(RInt(0), x) /\ RLeq(x, RInt(1))

\* C23: in every repeat of a factor of size >= 2 and for each norm the width
\* is at most the length (the sum of the retained deltas), so ave_flatness_l1
\* and ave_flatness_l2 lie in [0, 1]; the p=2 width is at most the p=1 width,
\* so the combined ave_flatness lies in [0, 1] and is at most ave_flatness_l1,
\* whenever the dataset has a factor of size >= 2.
C23_WidthAtMostLength ==
    /\ Measured =>
          /\ \A p \in Ps : LastMeasure[p].width <= ISum(LastMeasure[p].deltas)
          /\ LastMeasure[2].width <= LastMeasure[1].width
    /\ (pc = "done" /\ ActiveFactors # {}) =>
          /\ InUnitInterval(Val("flatness.ave_flatness_l1"))
          /\ InUnitInterval(Val("flatness.ave_flatness_l2"))
          /\ InUnitInterval(Val("flatness.ave_flatness"))
          /\ RLeq(Val("flatness.ave_flatness"), Val("flatness.ave_flatness_l1"))

\* a finished call on two factors of size >= 2 whose combined flatness is
\* strictly between 0 and 1 and strictly below ave_flatness_l1
C23_Witness ==
    /\ pc = "done"
    /\ Cardinality(ActiveFactors) = 2
    /\ Val("flatness.ave_flatness")[1] > 0
    /\ ~RLeq(Val("flatness.ave_flatness_l1"), Val("flatness.ave_flatness"))
    /\ ~RLeq(RInt(1), Val("flatness.ave_flatness_l2"))

\* the same-norm flatness of factor f alone: compute_flatness on its entries
FactorFlatness(f, p) ==
    FlatnessOf(<<p_fs_measures[p].fs_ave_widths[f]>>, <<p_fs_measures[p].fs_ave_lengths[f]>>)

\* some repeat of factor f encoded its traversal to points that are not all equal
SomeRepeatDistinct(f) == \E r \in 1..Len(fs_raw[f]) : fs_raw[f][r][1].width > 0

\* C25: for a factor of size 2 the two cyclic deltas of a traversal are equal,
\* exactly one is retained, and for each norm the width and the length of
\* every repeat are that distance; the same-norm flatness of the factor is
\* exactly 1 when some repeat encodes the two values to distinct points and
\* exactly 0 when every repeat encodes them to the same point.
C25_SizeTwoFactor ==
    /\ (Measured /\ Len(zs) = 2) =>
          \A p \in Ps :
              /\ RawDeltas(zs, p)[1] = RawDeltas(zs, p)[2]
              /\ RawDeltas(zs, p)[1] = Norm(p, zs[1], zs[2])
              /\ Len(LastMeasure[p].deltas) = 1
              /\ LastMeasure[p].deltas[1] = Norm(p, zs[1], zs[2])
              /\ LastMeasure[p].width = ISum(LastMeasure[p].deltas)
    /\ pc = "done" =>
          \A f \in 1..num_factors : factor_sizes[f] = 2 =>
              \A p \in Ps :
                  FactorFlatness(f, p) = IF SomeRepeatDistinct(f) THEN RInt(1) ELSE RInt(0)

\* a finished call with a factor of size 2 of which one repeat encoded the
\* two values to one point and another repeat to two points
C25_Witness ==
    /\ pc = "done"
    /\ \E f \in 1..num_factors :
          /\ factor_sizes[f] = 2
          /\ \E r \in 1..Len(fs_raw[f]) : fs_raw[f][r][1].width = 0
          /\ \E r \in 1..Len(fs_raw[f]) : fs_raw[f][r][2].width > 0

\* the range the sampler draws from, after lines 63-66
EpisodeRadius == Radius(Len(episode), sample_radius)

StrictlyDescending(s) == \A i \in 1..(Len(s) - 1) : s[i] > s[i + 1]

\* C26: with 1 <= n <= len(episode) and n <= radius, sample_episode_indices
\* returns exactly n indices of the episode, idx among them, ordered strictly
\* from highest to lowest (so pairwise distinct); it fails an assertion
\* before sampling exactly when n > len(episode) or n > radius; __call__
\* returns these indices each shifted by the offset, in the same order.
C26_SampledIndices ==
    /\ (pc \in {"offset", "done"} /\ num_samples >= 1) =>
          /\ Len(results[1]) = num_samples
          /\ \E i \in 1..Len(results[1]) : results[1][i] = episode_idx
          /\ \A i \in 1..Len(results[1]) : results[1][i] \in 0..(Len(episode) - 1)
          /\ StrictlyDescending(results[1])
    /\ pc # "__call__" =>
          ((pc = "AssertionError") <=> (num_samples > Len(episode) \/ num_samples > EpisodeRadius))
    /\ pc = "AssertionError" => (indices = {} /\ draws = 0 /\ results = <<>>)
    /\ pc = "done" =>
          /\ Len(results[2]) = Len(results[1])
          /\ \A i \in 1..Len(results[1]) : results[2][i] = results[1][i] + offset
          /\ StrictlyDescending(results[2])

\* __call__ has returned three indices of an episode that is not the first
\* of the dataset, drawn with a negative radius, idx being the middle one
C26_Witness ==
    /\ pc = "done"
    /\ num_samples = 3
    /\ offset > 0
    /\ sample_radius # <<>> /\ sample_radius[1] < 0
    /\ results[1][2] = episode_idx
    /\ results[2] # results[1]

\* C27: whenever the assertions pass, at least n indices can be drawn (idx
\* and the indices of the episode nearer than radius to idx), the loop body
\* never runs when n <= 1, and under a sampler that is fair over the
\* candidates the loop ends with a set of n indices.
C27_LoopTerminates ==
    /\ [](pc = "while" =>
            /\ episode_idx \in Candidates(episode_idx, Len(episode), EpisodeRadius) \/ num_samples <= 1
            /\ Cardinality(Candidates(episode_idx, Len(episode), EpisodeRadius) \cup {episode_idx}) >= num_samples)
    /\ [](num_samples <= 1 => draws = 0)
    /\ [](pc = "offset" => Cardinality(indices) >= num_samples)
    /\ ((pc = "while") ~> (pc = "offset"))

\* the loop has ended after iterations that drew an index already in the set
C27_Witness ==
    /\ pc = "offset"
    /\ num_samples >= 2
    /\ Cardinality(indices) = num_samples
    /\ draws > num_samples - 1

\* the last n elements of s
LastN(s, n) == IF Len(s) <= n THEN s ELSE SubSeq(s, Len(s) - n + 1, Len(s))

\* the uuids of the row of key that the request being answered has issued
NewInRow(key) == SelectSeq(Row(IMAGE_QUEUE', key), LAMBDA u : u > uuids)

\* the uuids held by the rows
InRows == UNION {{IMAGE_QUEUE[k][i] : i \in 1..Len(IMAGE_QUEUE[k])} : k \in DOMAIN IMAGE_QUEUE}

\* the uuids held by the image store
Stored == {e[1] : e \in UUID_TO_IMAGE}

\* the rows after an upload: every image of the request is in one row, and
\* every row is what it was followed by the new images of its key, cut to
\* its last ROW_SIZE images
C28_UploadStep ==
    /\ \A u \in (uuids + 1)..uuids' : \E k \in DOMAIN IMAGE_QUEUE' : \E i \in 1..Len(IMAGE_QUEUE'[k]) :
          IMAGE_QUEUE'[k][i] = u
    /\ \A k \in Keys : Row(IMAGE_QUEUE', k) = LastN(Row(IMAGE_QUEUE, k) \o NewInRow(k), ROW_SIZE)
    /\ \A k \in Keys : NewInRow(k) = <<>> => Row(IMAGE_QUEUE', k) = Row(IMAGE_QUEUE, k)

C28_Step ==
    /\ response'.request = <<"POST">> => C28_UploadStep
    /\ response'.request = <<"DELETE">> => (IMAGE_QUEUE' = <<>> /\ UUID_TO_IMAGE' = {})
    /\ Len(response'.request) = 2 => UNCHANGED <<IMAGE_QUEUE, UUID_TO_IMAGE>>

\* C28: every row holds at most ROW_SIZE images, in upload order (uuids are
\* numbered in the order they are issued); an upload appends the new images
\* of a key to its row and drops the oldest images beyond ROW_SIZE, leaving
\* the rows of the other keys as they were; a clear empties every row and
\* the image store.
C28_RowsHoldMostRecent ==
    /\ [](\A k \in DOMAIN IMAGE_QUEUE :
            /\ Len(IMAGE_QUEUE[k]) \in 1..ROW_SIZE
            /\ \A i \in 1..(Len(IMAGE_QUEUE[k]) - 1) : IMAGE_QUEUE[k][i] < IMAGE_QUEUE[k][i + 1]
            /\ \A i \in 1..Len(IMAGE_QUEUE[k]) : IMAGE_QUEUE[k][i] \in 1..uuids)
    /\ [][C28_Step]_vars

\* ten images were uploaded under "a" after one under "b": the row of "a"
\* has lost its oldest image and the row of "b" still holds its image
C28_Witness ==
    /\ DOMAIN IMAGE_QUEUE = {"a", "b"}
    /\ IMAGE_QUEUE["b"] = <<1>>
    /\ IMAGE_QUEUE["a"] = [i \in 1..ROW_SIZE |-> i + 2]

\* C29: UUID_TO_IMAGE holds exactly the uuids of the images in some row, so
\* at most ROW_SIZE images per key, and GET /api/image/<uuid> answers
\* 'MISSING' for an image that is in no row.
C29_StoreHoldsRowImages ==
    /\ Stored = InRows
    /\ Cardinality(UUID_TO_IMAGE) <= ROW_SIZE * Cardinality(DOMAIN IMAGE_QUEUE)
    /\ (Len(response.request) = 2 /\ response.request[2] \notin InRows) => response.body = "MISSING"

====
